---- MODULE Spec2Model ----
(***************************************************************************)
(* Subscription lifecycle of src/bot.py: the members table (one expiry per *)
(* user), the manual_requests table (redeem / approve / reject), the       *)
(* job queue of deferred kicks, and the handlers that run on one asyncio   *)
(* event loop.  A handler is atomic between two awaits: the database calls *)
(* are synchronous (psycopg), so a step of the model is the code from one  *)
(* await to the next.  Time is in seconds.                                 *)
(***************************************************************************)
EXTENDS Integers, Sequences, FiniteSets, Bags, TLC

VARIABLES
    now,              \* datetime.now(timezone.utc), in seconds
    ops,              \* updates received so far (bounds the run)
    phase,            \* "boot" until main() has run schedule_all_kicks
    jq_available,     \* application.job_queue is not None
    members,          \* table members: user_id -> row
    manual_requests,  \* table manual_requests: a set of rows
    next_id,          \* BIGSERIAL sequence of manual_requests.id
    jobs,             \* the job queue: a bag of scheduled kicks
    tasks,            \* handler and job invocations in flight, or their result
    grant_calls,      \* history: grant_access invocations made for a req_id
    revoked           \* history: when a kick job of a user last ended its ban loop

vars == <<now, ops, phase, jq_available, members, manual_requests, next_id,
          jobs, tasks, grant_calls, revoked>>

----------------------------------------------------------------------------
(* Configuration and bounds *)

Users == {1, 2}                  \* Telegram user ids that talk to the bot
ADMIN_IDS == {1}
CHANNEL_IDS == <<101, 102>>
SUB_DAYS == 30
SecondsPerDay == 24 * 60 * 60
SubPeriod == SUB_DAYS * SecondsPerDay      \* timedelta(days=SUB_DAYS)
BootGraceSeconds == 5
ForceKickDelaySeconds == 2

Slots == {1, 2}                  \* coroutines that may be in flight together
Start == 1000                    \* the clock when the process starts
MaxOps == 2                      \* updates (payments, commands, button presses) in one run

None == 0 - 1                    \* Python None / SQL NULL for a timestamp
NoUsername == "-"                \* Python None / SQL NULL for a username
Charges == {"c1", "c2"}          \* telegram_payment_charge_id of a payment
Codes == {"X", "Y"}
InitIds == {1, 2}                \* ids of the rows manual_requests may start with
ReqIds == 1 .. (Cardinality(InitIds) + MaxOps)

username_of(u) == IF u = 1 THEN "ann" ELSE "bob"

Max(a, b) == IF a >= b THEN a ELSE b

----------------------------------------------------------------------------
(* UTILS *)

\* Variant of is_admin that lets everybody in.
is_admin_anyone(user_id) == TRUE

is_admin(user_id) == user_id \in ADMIN_IDS

----------------------------------------------------------------------------
(* DB: members *)

NoMember == [present |-> FALSE, username |-> NoUsername, expires_at |-> None]

\* Variant of set_subscription with ON CONFLICT DO NOTHING.
set_subscription_insert_only(mem, user_id, username, expires_at) ==
    IF mem[user_id].present THEN mem
    ELSE [mem EXCEPT ![user_id] =
            [present |-> TRUE, username |-> username, expires_at |-> expires_at]]

set_subscription(mem, user_id, username, expires_at) ==
    [mem EXCEPT ![user_id] =
        [present |-> TRUE, username |-> username, expires_at |-> expires_at]]

get_expires_at(mem, user_id) ==
    IF mem[user_id].present THEN mem[user_id].expires_at ELSE None

get_all_members(mem) ==
    {[user_id |-> u, expires_at |-> mem[u].expires_at] : u \in {v \in Users : mem[v].present}}

----------------------------------------------------------------------------
(* DB: manual_requests *)

\* What init_db creates on manual_requests.  PRIMARY KEY defines a constraint
\* (and its index); CREATE UNIQUE INDEX defines an index and no constraint.
TableConstraints == {"manual_requests_pkey"}
TableUniqueIndexes == {"manual_requests_pkey", "uq_manual_requests_pending_user"}

PendingOf(reqs, user_id) == {r \in reqs : r.user_id = user_id /\ r.status = "PENDING"}

\* The partial unique index uq_manual_requests_pending_user accepts the table.
PendingIndexOk(reqs) ==
    "uq_manual_requests_pending_user" \in TableUniqueIndexes
        => \A u \in Users : Cardinality(PendingOf(reqs, u)) <= 1

NewRequest(id, user_id, username, code, t) ==
    [id |-> id, user_id |-> user_id, username |-> username, code |-> code,
     status |-> "PENDING", requested_at |-> t, decided_at |-> None]

\* INSERT ... ON CONFLICT ON CONSTRAINT <arbiter> DO UPDATE ... RETURNING id.
\* PostgreSQL resolves the arbiter among the constraints of the table and
\* rejects the statement when no constraint has that name.
InsertOnConflictUpdate(arbiter, reqs, nid, user_id, username, code, t) ==
    IF arbiter \notin TableConstraints
    THEN [raised |-> TRUE, reqs |-> reqs, next_id |-> nid, req_id |-> 0]
    ELSE IF PendingOf(reqs, user_id) # {}
    THEN LET old == CHOOSE r \in PendingOf(reqs, user_id) : TRUE
         IN [raised |-> FALSE,
             reqs |-> (reqs \ {old}) \cup
                      {[old EXCEPT !.username = username, !.code = code,
                                   !.requested_at = t]},
             next_id |-> nid + 1,
             req_id |-> old.id]
    ELSE [raised |-> FALSE,
          reqs |-> reqs \cup {NewRequest(nid, user_id, username, code, t)},
          next_id |-> nid + 1,
          req_id |-> nid]

\* Variant of the upsert that is a plain INSERT on a table without the
\* partial unique index.
upsert_plain_insert(reqs, nid, user_id, username, code, t) ==
    [raised |-> FALSE,
     reqs |-> reqs \cup {NewRequest(nid, user_id, username, code, t)},
     next_id |-> nid + 1,
     req_id |-> nid]

upsert_pending_manual_request(reqs, nid, user_id, username, code, t) ==
    InsertOnConflictUpdate("uq_manual_requests_pending_user",
                           reqs, nid, user_id, username, code, t)

\* SELECT ... WHERE user_id=%s AND status='PENDING' ORDER BY requested_at DESC LIMIT 1
get_pending_manual_request(reqs, user_id) ==
    LET P == PendingOf(reqs, user_id)
    IN IF P = {} THEN {}
       ELSE {CHOOSE r \in P : \A q \in P : q.requested_at <= r.requested_at}

\* Variant of decide_manual_request whose UPDATE is never committed.
decide_without_commit(reqs, req_id, status, t) == reqs

decide_manual_request(reqs, req_id, status, t) ==
    {IF r.id = req_id THEN [r EXCEPT !.status = status, !.decided_at = t] ELSE r
        : r \in reqs}

----------------------------------------------------------------------------
(* The job queue *)

kick_name(user_id) == [prefix |-> "kick", user_id |-> user_id, ts |-> 0]
forcekick_name(user_id, t) == [prefix |-> "forcekick", user_id |-> user_id, ts |-> t]

\* JobQueue.run_once adds a job; the name is a label, not a key.
run_once(jq, name, user_id, when) ==
    jq (+) SetToBag({[name |-> name, user_id |-> user_id, when |-> when]})

JobsOf(user_id) == {j \in BagToSet(jobs) : j.user_id = user_id}

LiveEntries(user_id) ==
    LET S == JobsOf(user_id)
        RECURSIVE Sum(_)
        Sum(T) == IF T = {} THEN 0
                  ELSE LET j == CHOOSE x \in T : TRUE
                       IN CopiesIn(j, jobs) + Sum(T \ {j})
    IN Sum(S)

----------------------------------------------------------------------------
(* Handler and job invocations *)

Idle == [kind |-> "idle", pc |-> "done", outcome |-> "none", caller |-> 0,
         action |-> "none", user_id |-> 0, req_id |-> 0, code |-> "", charge |-> "",
         idx |-> 0,
         new_expires |-> None, sched |-> None, calls |-> <<>>, failed |-> {}]

Free(s) == tasks[s].pc = "done"

\* An update or a due job is taken up by the first coroutine not in flight.
Accepts(s) ==
    /\ phase = "running"
    /\ Free(s)
    /\ \A q \in Slots : q < s => ~Free(q)

\* An update arrives while the run's budget lasts.
Arrives(s) ==
    /\ Accepts(s)
    /\ ops < MaxOps

\* What stays of an invocation that has returned: its result.
Finish(t, outcome) ==
    [t EXCEPT !.pc = "done", !.outcome = outcome, !.idx = 0, !.failed = {}]

----------------------------------------------------------------------------
(* JOB: kick_user_from_all_chats *)

\* Variant of kick_skips with the comparison turned round.
kick_skips_inverted(expires_at, t) == expires_at # None /\ expires_at < t

\* "Se nel frattempo ha rinnovato ed e' ancora valido, NON kicchiamo"
kick_skips(expires_at, t) == expires_at # None /\ expires_at > t

\* The job is taken off the queue and runs up to its first await.
JobFire(s, j) ==
    /\ Accepts(s)
    /\ j \in BagToSet(jobs)
    /\ j.when <= now
    /\ jobs' = jobs (-) SetToBag({j})
    /\ LET t == [Idle EXCEPT !.kind = "job", !.user_id = j.user_id, !.sched = j.when]
       IN tasks' = [tasks EXCEPT ![s] =
                IF kick_skips(get_expires_at(members, j.user_id), now)
                THEN Finish(t, "skipped")
                ELSE [t EXCEPT !.pc = "ban", !.idx = 1]]
    /\ UNCHANGED <<revoked, now, ops, phase, jq_available, members, manual_requests,
                   next_id, grant_calls>>

\* Variant of JobBan in which a ban_chat_member that raises ends the job.
JobBan_abort_on_failure(s) ==
    /\ tasks[s].kind = "job"
    /\ tasks[s].pc = "ban"
    /\ \E ok \in BOOLEAN :
         LET t == tasks[s]
             ch == CHANNEL_IDS[t.idx]
             t2 == [t EXCEPT !.calls = Append(t.calls, ch),
                             !.failed = IF ok THEN t.failed ELSE t.failed \cup {ch},
                             !.idx = t.idx + 1]
             last == t.idx = Len(CHANNEL_IDS) \/ ~ok
         IN /\ tasks' = [tasks EXCEPT ![s] = IF last THEN Finish(t2, "kicked") ELSE t2]
            /\ revoked' = IF last THEN [revoked EXCEPT ![t.user_id] = now] ELSE revoked
    /\ UNCHANGED <<now, ops, phase, jq_available, members, manual_requests,
                   next_id, jobs, grant_calls>>

\* One turn of "for ch_id in CHANNEL_IDS": ban_chat_member returns or raises,
\* and the loop goes on to the call for the next channel, if there is one.
JobBan(s) ==
    /\ tasks[s].kind = "job"
    /\ tasks[s].pc = "ban"
    /\ \E ok \in BOOLEAN :
         LET t == tasks[s]
             ch == CHANNEL_IDS[t.idx]
             t2 == [t EXCEPT !.calls = Append(t.calls, ch),
                             !.failed = IF ok THEN t.failed ELSE t.failed \cup {ch},
                             !.idx = t.idx + 1]
             last == t.idx = Len(CHANNEL_IDS)
         IN /\ tasks' = [tasks EXCEPT ![s] = IF last THEN Finish(t2, "kicked") ELSE t2]
            /\ revoked' = IF last THEN [revoked EXCEPT ![t.user_id] = now] ELSE revoked
    /\ UNCHANGED <<now, ops, phase, jq_available, members, manual_requests,
                   next_id, jobs, grant_calls>>

\* Variant of schedule_all_kicks that leaves lapsed grants alone.
schedule_future_kicks(jq, mem, t) ==
    LET due == {m \in get_all_members(mem) : m.expires_at # None /\ m.expires_at > t}
    IN jq (+) SetToBag({[name |-> kick_name(m.user_id), user_id |-> m.user_id,
                         when |-> m.expires_at] : m \in due})

\* Variant of schedule_all_kicks without the grace for lapsed grants.
schedule_all_kicks_no_grace(jq, mem, t) ==
    LET due == {m \in get_all_members(mem) : m.expires_at # None}
    IN jq (+) SetToBag({[name |-> kick_name(m.user_id), user_id |-> m.user_id,
                         when |-> m.expires_at] : m \in due})

\* schedule_all_kicks: the queue after the loop over get_all_members().
schedule_all_kicks(jq, mem, t) ==
    LET due == {m \in get_all_members(mem) : m.expires_at # None}
    IN jq (+) SetToBag({[name |-> kick_name(m.user_id), user_id |-> m.user_id,
                         when |-> IF m.expires_at <= t THEN t + BootGraceSeconds
                                  ELSE m.expires_at] : m \in due})

Bootstrap ==
    /\ phase = "boot"
    /\ phase' = "running"
    /\ jobs' = IF jq_available THEN schedule_all_kicks(jobs, members, now) ELSE jobs
    /\ UNCHANGED <<revoked, now, ops, jq_available, members, manual_requests, next_id,
                   tasks, grant_calls>>

----------------------------------------------------------------------------
(* CORE: grant_access *)

\* Variant of grant_base that always restarts from now.
grant_base_from_now(old_expires, t) == t

grant_base(old_expires, t) ==
    IF old_expires # None /\ old_expires > t THEN old_expires ELSE t

grant_new_expires(old_expires, t) == grant_base(old_expires, t) + SubPeriod

\* Variant of grant_schedule that schedules the kick one period from now.
grant_schedule_from_now(jq, user_id, new_expires) ==
    IF jq_available THEN run_once(jq, kick_name(user_id), user_id, now + SubPeriod) ELSE jq

\* Variant of grant_schedule that never schedules the kick.
grant_schedule_none(jq, user_id, new_expires) == jq

\* The queue after the "jq is not None" test of grant_access.
grant_schedule(jq, user_id, new_expires) ==
    IF jq_available THEN run_once(jq, kick_name(user_id), user_id, new_expires) ELSE jq

\* Variant of GrantPersist that computes from the expiry a grant_access in
\* flight for the same user has read, when there is one.
GrantPersist_stale_read(user_id, username) ==
    LET inflight == {s \in Slots : /\ tasks[s].pc \in {"links", "notify"}
                                   /\ tasks[s].user_id = user_id}
        base == IF inflight = {}
                THEN grant_base(get_expires_at(members, user_id), now)
                ELSE tasks[CHOOSE s \in inflight : TRUE].new_expires - SubPeriod
    IN /\ members' = set_subscription(members, user_id, username, base + SubPeriod)
       /\ jobs' = grant_schedule(jobs, user_id, base + SubPeriod)

\* grant_access up to its first await: read, compute, persist, schedule.
GrantPersist(user_id, username) ==
    LET new_expires == grant_new_expires(get_expires_at(members, user_id), now)
    IN /\ members' = set_subscription(members, user_id, username, new_expires)
       /\ jobs' = grant_schedule(jobs, user_id, new_expires)

\* successful_payment_handler, up to the first await inside grant_access.
\* The update carries the charge id of the payment; the handler reads
\* msg.from_user only.
PaymentStart(s, u, charge) ==
    /\ Arrives(s)
    /\ GrantPersist(u, username_of(u))
    /\ tasks' = [tasks EXCEPT ![s] =
          [Idle EXCEPT !.kind = "payment", !.user_id = u, !.charge = charge,
                       !.pc = "links", !.idx = 1,
                       !.new_expires = members'[u].expires_at]]
    /\ ops' = ops + 1
    /\ UNCHANGED <<revoked, now, phase, jq_available, manual_requests, next_id,
                   grant_calls>>

\* The invite loop over CHANNEL_IDS: unban_chat_member (errors ignored), then
\* create_chat_invite_link (errors logged).  The loop reads and writes nothing
\* but the links of the message, so its turns are one step; calls keeps the
\* channels the gateway was called for.
GrantLinks(s) ==
    /\ tasks[s].pc = "links"
    /\ tasks' = [tasks EXCEPT ![s] = [tasks[s] EXCEPT !.pc = "notify", !.idx = 0,
                                                      !.calls = CHANNEL_IDS]]
    /\ UNCHANGED <<revoked, now, ops, phase, jq_available, members, manual_requests,
                   next_id, jobs, grant_calls>>

\* send_message to the user ends grant_access: it returns new_expires or
\* raises.  The caller then answers (payment) or edits the admin message.
GrantNotify(s) ==
    /\ tasks[s].pc = "notify"
    /\ \E sent \in BOOLEAN :
         tasks' = [tasks EXCEPT ![s] =
            IF tasks[s].kind = "payment"
            THEN Finish(tasks[s], IF sent THEN "granted" ELSE "error")
            ELSE Finish(tasks[s], IF sent THEN "approved" ELSE "approved_error")]
    /\ UNCHANGED <<revoked, now, ops, phase, jq_available, members, manual_requests,
                   next_id, jobs, grant_calls>>

----------------------------------------------------------------------------
(* MANUALE: redeem *)

\* /redeem CODICE (with its argument): one synchronous upsert, then only
\* messages.  When the upsert raises, the handler ends with the exception.
Redeem(s, u, code) ==
    /\ Arrives(s)
    /\ LET t == [Idle EXCEPT !.kind = "redeem", !.user_id = u, !.code = code]
           r == upsert_pending_manual_request(manual_requests, next_id, u,
                                              username_of(u), code, now)
       IN IF r.raised
          THEN /\ tasks' = [tasks EXCEPT ![s] = Finish(t, "error")]
               /\ UNCHANGED <<manual_requests, next_id>>
          ELSE /\ tasks' = [tasks EXCEPT ![s] =
                      Finish([t EXCEPT !.req_id = r.req_id], "submitted")]
               /\ manual_requests' = r.reqs
               /\ next_id' = r.next_id
    /\ ops' = ops + 1
    /\ UNCHANGED <<revoked, now, phase, jq_available, members, jobs, grant_calls>>

----------------------------------------------------------------------------
(* MANUALE: manual_admin_callback *)

\* Variant of callback_check that looks the request up by its id, whatever
\* its status.
callback_check_by_id(reqs, user_id, req_id) ==
    LET found == {r \in reqs : r.id = req_id /\ r.user_id = user_id}
    IN IF found = {} THEN [result |-> "no_pending", username |-> NoUsername]
       ELSE [result |-> "ok", username |-> (CHOOSE r \in found : TRUE).username]

\* Variant of callback_check that does not compare the ids.
callback_check_any_pending(reqs, user_id, req_id) ==
    LET pending == get_pending_manual_request(reqs, user_id)
    IN IF pending = {} THEN [result |-> "no_pending", username |-> NoUsername]
       ELSE [result |-> "ok", username |-> (CHOOSE r \in pending : TRUE).username]

\* "Verifica che la richiesta sia ancora PENDING": the lookup, the two early
\* returns, and pending_username for the grant.
callback_check(reqs, user_id, req_id) ==
    LET pending == get_pending_manual_request(reqs, user_id)
    IN IF pending = {} THEN [result |-> "no_pending", username |-> NoUsername]
       ELSE LET p == CHOOSE r \in pending : TRUE
            IN IF p.id # req_id \/ p.status # "PENDING"
               THEN [result |-> "not_valid", username |-> NoUsername]
               ELSE [result |-> "ok", username |-> p.username]

\* A press of an admin button arrives, with callback data that parses
\* (man_approve|man_reject : user_id : req_id): the handler awaits q.answer().
CallbackStart(s, caller, action, user_id, req_id) ==
    /\ Arrives(s)
    /\ tasks' = [tasks EXCEPT ![s] =
          IF ~is_admin(caller)         \* q.data is never read
          THEN [Idle EXCEPT !.kind = "callback", !.pc = "answer", !.caller = caller]
          ELSE [Idle EXCEPT !.kind = "callback", !.pc = "answer", !.caller = caller,
                            !.action = action, !.user_id = user_id,
                            !.req_id = req_id]]
    /\ ops' = ops + 1
    /\ UNCHANGED <<revoked, now, phase, jq_available, members, manual_requests,
                   next_id, jobs, grant_calls>>

\* From the return of q.answer() to the next await: the admin test, the
\* parse, the PENDING check, the decision and, on approval, grant_access up
\* to its first await.
CallbackRun(s) ==
    /\ tasks[s].kind = "callback"
    /\ tasks[s].pc = "answer"
    /\ LET t == tasks[s]
           chk == callback_check(manual_requests, t.user_id, t.req_id)
           decided(st) == decide_manual_request(manual_requests, t.req_id, st, now)
           stop(outcome) ==
               /\ tasks' = [tasks EXCEPT ![s] = Finish(t, outcome)]
               /\ UNCHANGED <<members, manual_requests, jobs, grant_calls>>
       IN \E grant_db_ok \in BOOLEAN :
            IF ~is_admin(t.caller) THEN stop("unauthorized")
            ELSE IF chk.result # "ok" THEN stop(chk.result)
            ELSE IF t.action = "man_reject"
            THEN /\ manual_requests' = decided("REJECTED")
                 /\ tasks' = [tasks EXCEPT ![s] = Finish(t, "rejected")]
                 /\ UNCHANGED <<members, jobs, grant_calls>>
            ELSE /\ manual_requests' = decided("APPROVED")
                 /\ grant_calls' = [grant_calls EXCEPT ![t.req_id] = @ + 1]
                 /\ IF ~grant_db_ok   \* get_expires_at or set_subscription raises
                    THEN /\ tasks' = [tasks EXCEPT ![s] = Finish(t, "approved_error")]
                         /\ UNCHANGED <<members, jobs>>
                    ELSE /\ GrantPersist(t.user_id, chk.username)
                         /\ tasks' = [tasks EXCEPT ![s] =
                               [t EXCEPT !.pc = "links", !.idx = 1,
                                         !.new_expires = members'[t.user_id].expires_at]]
    /\ UNCHANGED <<revoked, now, ops, phase, jq_available, next_id>>

----------------------------------------------------------------------------
(* COMANDI ADMIN: forcekick *)

\* Variant of ForceKick that schedules the kick and leaves the expiry alone.
ForceKick_keep_expiry(s, caller, target) ==
    /\ Arrives(s)
    /\ LET t == [Idle EXCEPT !.kind = "forcekick", !.caller = caller]
       IN IF ~is_admin(caller)
          THEN /\ tasks' = [tasks EXCEPT ![s] = Finish(t, "unauthorized")]
               /\ UNCHANGED jobs
          ELSE /\ jobs' = IF jq_available
                          THEN run_once(jobs, forcekick_name(target, now), target,
                                        now + ForceKickDelaySeconds)
                          ELSE jobs
               /\ tasks' = [tasks EXCEPT ![s] =
                     Finish([t EXCEPT !.user_id = target],
                            IF jq_available THEN "scheduled" ELSE "no_jobqueue")]
    /\ ops' = ops + 1
    /\ UNCHANGED <<revoked, now, phase, jq_available, members, manual_requests,
                   next_id, grant_calls>>

\* /forcekick <user_id>, with a numeric argument.
ForceKick(s, caller, target) ==
    /\ Arrives(s)
    /\ LET t == [Idle EXCEPT !.kind = "forcekick", !.caller = caller]
           stop(outcome) ==
               /\ tasks' = [tasks EXCEPT ![s] = Finish(t, outcome)]
               /\ UNCHANGED <<members, jobs>>
       IN IF ~is_admin(caller) THEN stop("unauthorized")
          ELSE /\ members' = set_subscription(members, target, NoUsername, now)
               /\ jobs' = IF jq_available
                          THEN run_once(jobs, forcekick_name(target, now), target,
                                        now + ForceKickDelaySeconds)
                          ELSE jobs
               /\ tasks' = [tasks EXCEPT ![s] =
                     Finish([t EXCEPT !.user_id = target],
                            IF jq_available THEN "scheduled" ELSE "no_jobqueue")]
    /\ ops' = ops + 1
    /\ UNCHANGED <<revoked, now, phase, jq_available, manual_requests, next_id,
                   grant_calls>>

----------------------------------------------------------------------------
(* The clock *)

\* Time passes, up to the next instant at which something is due: the fire
\* time of a scheduled job or the expiry of a grant.  The clock is read only
\* by the first step of a handler and by CallbackRun; the steps that wait on
\* the gateway do not read it, so a tick during them is the tick after them.
Tick ==
    /\ phase = "running"
    /\ \A s \in Slots : tasks[s].pc \in {"done", "answer"}
    /\ \E t \in {j.when : j \in BagToSet(jobs)} \cup
                {members[u].expires_at : u \in Users} :
         /\ t > now
         /\ now' = t
    /\ UNCHANGED <<revoked, ops, phase, jq_available, members, manual_requests, next_id, jobs,
                   tasks, grant_calls>>

----------------------------------------------------------------------------
(* The state the process starts in: whatever the database holds *)

\* A row with no expiry, a lapsed one, one that lapses within the boot grace.
InitExpiries(u) == IF is_admin(u) THEN {Start + 2} ELSE {None, Start - 1, Start + 2}

InitMemberRows(u) ==
    {NoMember} \cup
    {[present |-> TRUE, username |-> username_of(u), expires_at |-> e]
        : e \in InitExpiries(u)}

Statuses == {"PENDING", "APPROVED", "REJECTED"}
InitReqUsers == {2}              \* users whose requests the table may start with

InitRow(id, user_id, status) ==
    [id |-> id, user_id |-> user_id, username |-> username_of(user_id),
     code |-> "X", status |-> status, requested_at |-> Start - 2,
     decided_at |-> IF status = "PENDING" THEN None ELSE Start - 1]

\* Tables with ids 1..n that the unique indexes of init_db accept.
InitTables ==
    {T \in UNION {{ {InitRow(i, f[i][1], f[i][2]) : i \in 1..n}
                    : f \in [1..n -> InitReqUsers \X Statuses]}
                  : n \in 0..Cardinality(InitIds)}
       : PendingIndexOk(T)}

InitMembers ==
    {m \in [Users -> UNION {InitMemberRows(u) : u \in Users}]
        : \A u \in Users : m[u] \in InitMemberRows(u)}

\* The stores drawn from: any members with no request, or any requests
\* with no member yet.
InitStores ==
    {[members |-> m, manual_requests |-> {}] : m \in InitMembers}
    \cup
    {[members |-> [u \in Users |-> NoMember], manual_requests |-> T] : T \in InitTables}

Init ==
    /\ now = Start
    /\ ops = 0
    /\ phase = "boot"
    /\ jq_available \in BOOLEAN
    /\ \E st \in InitStores :
         /\ members = st.members
         /\ manual_requests = st.manual_requests
    /\ next_id = Cardinality(manual_requests) + 1
    /\ jobs = EmptyBag
    /\ tasks = [s \in Slots |-> Idle]
    /\ grant_calls = [r \in ReqIds |-> 0]
    /\ revoked = [u \in Users |-> None]

Next ==
    \/ Bootstrap
    \/ Tick
    \/ \E s \in Slots, j \in BagToSet(jobs) : JobFire(s, j)
    \/ \E s \in Slots : JobBan(s)
    \/ \E s \in Slots, u \in Users, c \in Charges : PaymentStart(s, u, c)
    \/ \E s \in Slots : GrantLinks(s)
    \/ \E s \in Slots : GrantNotify(s)
    \/ \E s \in Slots, u \in Users, code \in Codes : Redeem(s, u, code)
    \/ \E s \in Slots, caller \in Users, action \in {"man_approve", "man_reject"},
          u \in Users, r \in InitIds : CallbackStart(s, caller, action, u, r)
    \/ \E s \in Slots : CallbackRun(s)
    \/ \E s \in Slots, caller \in Users, target \in Users : ForceKick(s, caller, target)

Spec == Init /\ [][Next]_vars

----------------------------------------------------------------------------
(* Steps, as the properties below name them *)

\* Slot s takes job j off the queue in this step.
JobFired(s, j) ==
    /\ Accepts(s)
    /\ CopiesIn(j, jobs') = CopiesIn(j, jobs) - 1
    /\ tasks'[s].kind = "job"
    /\ tasks'[s].user_id = j.user_id
    /\ tasks'[s].sched = j.when

\* grant_access persists and schedules for slot s in this step.
GrantPersisted(s) ==
    /\ tasks[s].pc # "links"
    /\ tasks'[s].pc = "links"

----------------------------------------------------------------------------
(* C1 *)

\* C1: renewal race safety.  When a job scheduled for T fires while the
\* persisted expiry of its user is strictly greater than now (the grant was
\* extended to T' > T before the job fired), the job ends at once with no
\* revoke call on any resource, and the queue only loses the fired entry: no
\* new entry is installed.  A job that skipped never calls revoke later.
C1_RenewalRaceSafety ==
    [][ /\ \A s \in Slots : \A j \in BagToSet(jobs) :
             (/\ JobFired(s, j)
              /\ members[j.user_id].present
              /\ members[j.user_id].expires_at # None
              /\ members[j.user_id].expires_at > now)
             => /\ tasks'[s].pc = "done"
                /\ tasks'[s].outcome = "skipped"
                /\ tasks'[s].calls = <<>>
                /\ jobs' = jobs (-) SetToBag({j})
        /\ \A s \in Slots :
             (tasks[s].kind = "job" /\ tasks[s].outcome = "skipped")
             => (tasks'[s].kind = "job" /\ tasks'[s].outcome = "skipped"
                    => tasks'[s].calls = <<>>)
      ]_vars

\* A job scheduled at boot for T = Start + 2 has fired after a payment moved
\* the expiry to T + SubPeriod, and it skipped.
C1_Witness ==
    \E s \in Slots :
        /\ tasks[s].kind = "job"
        /\ tasks[s].outcome = "skipped"
        /\ tasks[s].sched = Start + 2
        /\ now >= tasks[s].sched
        /\ members[tasks[s].user_id].expires_at = Start + 2 + SubPeriod

----------------------------------------------------------------------------
(* C2 *)

\* C2: ExtendGrant persists and returns exactly max(current_expiry, now) +
\* period, an absent expiry counting as now: a current expiry strictly in the
\* future gives current + period and not now + period; a lapsed or absent one
\* gives now + period.
C2_ExtendGrantExact ==
    [][ \A s \in Slots :
          GrantPersisted(s) =>
            LET u == tasks'[s].user_id
                absent == ~members[u].present \/ members[u].expires_at = None
                cur == IF absent THEN now ELSE members[u].expires_at
            IN /\ members'[u].expires_at = Max(cur, now) + SubPeriod
               /\ tasks'[s].new_expires = Max(cur, now) + SubPeriod
               /\ (cur > now => /\ members'[u].expires_at = cur + SubPeriod
                                /\ members'[u].expires_at # now + SubPeriod)
               /\ (cur <= now => members'[u].expires_at = now + SubPeriod)
      ]_vars

\* A payer whose grant ran until Start + 2 paid at Start: the grant now runs
\* until Start + 2 + SubPeriod, and grant_access returned that.
C2_Witness ==
    \E s \in Slots :
        /\ tasks[s].kind = "payment"
        /\ tasks[s].outcome = "granted"
        /\ now = Start
        /\ tasks[s].new_expires = Start + 2 + SubPeriod
        /\ members[tasks[s].user_id].expires_at = Start + 2 + SubPeriod

----------------------------------------------------------------------------
(* C3 *)

\* C3: in every reachable state each user_id has at most one request whose
\* status is PENDING.
C3_OnePendingPerUser ==
    \A u \in Users : Cardinality(PendingOf(manual_requests, u)) <= 1

\* A user with a decided request and a PENDING one has sent /redeem again.
C3_Witness ==
    \E s \in Slots :
        /\ tasks[s].kind = "redeem"
        /\ tasks[s].pc = "done"
        /\ Cardinality(PendingOf(manual_requests, tasks[s].user_id)) = 1
        /\ \E r \in manual_requests :
              r.user_id = tasks[s].user_id /\ r.status # "PENDING"

----------------------------------------------------------------------------
(* C4 *)

\* Slot s handles a /redeem in this step.
RedeemStep(s) ==
    /\ ops' = ops + 1
    /\ tasks'[s].kind = "redeem"
    /\ \A q \in Slots : q # s => tasks'[q] = tasks[q]

\* C4: idempotent resubmission.  A /redeem by a user with a PENDING request
\* adds no row, returns the id of that request, leaves it PENDING and gives
\* it the code (and requested_at) of this call; a /redeem by a user without
\* a PENDING request adds one PENDING row with a fresh id and returns it.
C4_IdempotentResubmission ==
    [][ \A s \in Slots :
          (Arrives(s) /\ RedeemStep(s)) =>
            LET u == tasks'[s].user_id
                P == PendingOf(manual_requests, u)
            IN IF P # {}
               THEN /\ Cardinality(manual_requests') = Cardinality(manual_requests)
                    /\ \E r \in P : \E r2 \in PendingOf(manual_requests', u) :
                          /\ r2.id = r.id
                          /\ r2.code = tasks'[s].code
                          /\ r2.requested_at = now
                          /\ tasks'[s].req_id = r.id
               ELSE \E r2 \in PendingOf(manual_requests', u) :
                          /\ r2.id \notin {r.id : r \in manual_requests}
                          /\ r2.code = tasks'[s].code
                          /\ manual_requests' = manual_requests \cup {r2}
                          /\ tasks'[s].req_id = r2.id
      ]_vars

----------------------------------------------------------------------------
(* C5 *)

\* Slot s runs manual_admin_callback past q.answer() in this step.
DecideStep(s) ==
    /\ tasks[s].kind = "callback"
    /\ tasks[s].pc = "answer"
    /\ tasks'[s].pc # "answer"

\* The invocation moved its request out of PENDING.
Winner(t) ==
    /\ t.kind = "callback"
    /\ \/ t.pc \in {"links", "notify"}
       \/ t.pc = "done" /\ t.outcome \in {"approved", "approved_error", "rejected"}

\* The invocation was refused as StaleRequest.
Stale(t) ==
    /\ t.kind = "callback"
    /\ t.pc = "done"
    /\ t.outcome \in {"no_pending", "not_valid"}

StatusOf(reqs, req_id) == {r.status : r \in {x \in reqs : x.id = req_id}}

\* C5: exactly-once decision.  A Decide by a reviewer whose token names a
\* request that is PENDING moves it to the decision of the token, and invokes
\* grant_access once when that is an approval; a Decide whose request is no
\* longer PENDING is refused as stale and changes nothing.  So of two
\* invocations with the same token at most one wins, and grant_access is
\* invoked at most once for a request.
C5_ExactlyOnceDecision ==
    [][ /\ \A s \in Slots :
             (DecideStep(s) /\ is_admin(tasks[s].caller)) =>
               LET t == tasks[s]
                   live == \E r \in manual_requests :
                              /\ r.id = t.req_id
                              /\ r.user_id = t.user_id
                              /\ r.status = "PENDING"
                   approve == t.action = "man_approve"
               IN IF live
                  THEN /\ Winner(tasks'[s])
                       /\ StatusOf(manual_requests', t.req_id)
                            = {IF approve THEN "APPROVED" ELSE "REJECTED"}
                       /\ grant_calls'[t.req_id]
                            = grant_calls[t.req_id] + (IF approve THEN 1 ELSE 0)
                  ELSE /\ Stale(tasks'[s])
                       /\ UNCHANGED <<members, manual_requests, next_id, jobs,
                                      grant_calls>>
        /\ \A r \in ReqIds : grant_calls'[r] <= 1
        /\ \A s1 \in Slots, s2 \in Slots :
             (/\ s1 # s2
              /\ tasks'[s1].req_id = tasks'[s2].req_id
              /\ tasks'[s1].user_id = tasks'[s2].user_id)
             => ~(Winner(tasks'[s1]) /\ Winner(tasks'[s2]))
      ]_vars

\* Two presses with the same token overlap: one approved and is still inside
\* grant_access, the other has been refused as stale.
C5_Witness ==
    \E s1 \in Slots, s2 \in Slots :
        /\ s1 # s2
        /\ tasks[s1].kind = "callback"
        /\ tasks[s1].pc \in {"links", "notify"}
        /\ Stale(tasks[s2])
        /\ tasks[s1].req_id = tasks[s2].req_id
        /\ tasks[s1].user_id = tasks[s2].user_id
        /\ grant_calls[tasks[s1].req_id] = 1

----------------------------------------------------------------------------
(* C6 *)

\* C6: a request that is APPROVED or REJECTED never changes status again,
\* and no step changes the id or the user_id of a request or removes it.
C6_TerminalStatus ==
    [][ \A r \in manual_requests :
          /\ Cardinality({x \in manual_requests' : x.id = r.id}) = 1
          /\ \E x \in manual_requests' :
                /\ x.id = r.id
                /\ x.user_id = r.user_id
                /\ x.status \in Statuses
                /\ (r.status \in {"APPROVED", "REJECTED"} => x.status = r.status)
      ]_vars

\* A request decided in this run was then the target of a replayed token,
\* which was refused, while its user holds another PENDING request.
C6_Witness ==
    \E r \in manual_requests : \E s \in Slots :
        /\ r.status \in {"APPROVED", "REJECTED"}
        /\ Stale(tasks[s])
        /\ tasks[s].req_id = r.id
        /\ tasks[s].user_id = r.user_id
        /\ PendingOf(manual_requests, r.user_id) # {}

----------------------------------------------------------------------------
(* C7 *)

\* C7: approval is recorded before the grant and never rolled back.  The
\* step that invokes grant_access for a request leaves it APPROVED, also when
\* grant_access fails in the store, in which case nothing is granted and the
\* reviewer is told "APPROVATO ma errore"; when grant_access fails later, in
\* the notification, the reviewer is told the same and the request stays
\* APPROVED.
C7_ApprovalNotRolledBack ==
    [][ \A s \in Slots :
          /\ (/\ DecideStep(s)
              /\ is_admin(tasks[s].caller)
              /\ grant_calls'[tasks[s].req_id] # grant_calls[tasks[s].req_id])
             => /\ StatusOf(manual_requests', tasks[s].req_id) = {"APPROVED"}
                /\ (tasks'[s].pc = "done"
                      => /\ tasks'[s].outcome = "approved_error"
                         /\ UNCHANGED <<members, jobs>>)
          /\ (tasks[s].kind = "callback" /\ tasks[s].pc = "notify" /\ tasks'[s].pc = "done")
             => tasks'[s].outcome \in {"approved", "approved_error"}
          /\ (tasks'[s].kind = "callback"
                /\ (tasks'[s].pc \in {"links", "notify"}
                      \/ tasks'[s].outcome \in {"approved", "approved_error"}))
             => StatusOf(manual_requests', tasks'[s].req_id) = {"APPROVED"}
      ]_vars

\* grant_access failed after the approval: the reviewer has the error
\* message and the request is APPROVED.
C7_Witness ==
    \E s \in Slots :
        /\ tasks[s].kind = "callback"
        /\ tasks[s].pc = "done"
        /\ tasks[s].outcome = "approved_error"
        /\ StatusOf(manual_requests, tasks[s].req_id) = {"APPROVED"}
        /\ members[tasks[s].user_id].present

----------------------------------------------------------------------------
(* C8 *)

\* C8: replace-not-queue scheduling.  In every reachable state the job queue
\* holds at most one entry that has not fired for a user_id.
C8_AtMostOneLiveEntry == \A u \in Users : LiveEntries(u) <= 1

----------------------------------------------------------------------------
(* Startup alone: the process boots and only its job queue runs *)

NextBoot ==
    \/ Bootstrap
    \/ Tick
    \/ \E s \in Slots, j \in BagToSet(jobs) : JobFire(s, j)
    \/ \E s \in Slots : JobBan(s)

\* post_init runs once; the clock advances; the job queue runs a job that is
\* due; a ban_chat_member call returns or raises.
FairBoot ==
    /\ Init
    /\ [][NextBoot]_vars
    /\ WF_vars(Bootstrap)
    /\ WF_vars(Tick)
    /\ WF_vars(\E s \in Slots, j \in BagToSet(jobs) : JobFire(s, j))
    /\ WF_vars(\E s \in Slots : JobBan(s))

(* C9 *)

\* The users whose row carries an expiry.
WithExpiry(mem) == {u \in Users : get_expires_at(mem, u) # None}

\* The kick job of user u has run through the ban loop: one ban_chat_member
\* call per entry of CHANNEL_IDS, in order.
KickedEverywhere(u) ==
    \E s \in Slots :
        /\ tasks[s].kind = "job"
        /\ tasks[s].user_id = u
        /\ tasks[s].pc = "done"
        /\ tasks[s].outcome = "kicked"
        /\ tasks[s].calls = CHANNEL_IDS

\* C9: startup recovery.  With a job queue, the boot step turns an empty
\* queue into one entry per user whose row has an expiry, and none for the
\* others; and for a grant that has lapsed before the boot, the job fires
\* and calls ban_chat_member once for each configured channel, after which
\* no entry for that user is left.
C9_StartupRecovery ==
    /\ [][ (phase = "boot" /\ phase' = "running" /\ jq_available) =>
             /\ jobs = EmptyBag
             /\ BagCardinality(jobs') = Cardinality(WithExpiry(members))
             /\ \A u \in Users :
                  LiveEntries(u)' = IF u \in WithExpiry(members) THEN 1 ELSE 0
         ]_vars
    /\ \A u \in Users :
         (/\ phase = "boot"
          /\ jq_available
          /\ u \in WithExpiry(members)
          /\ get_expires_at(members, u) <= now)
         ~> (KickedEverywhere(u) /\ LiveEntries(u) = 0)

\* Both users had a grant at the boot, one of them lapsed; the lapsed one has
\* been banned from every channel and its entry is gone.
C9_Witness ==
    \E u \in Users :
        /\ jq_available
        /\ WithExpiry(members) = Users
        /\ get_expires_at(members, u) < Start
        /\ KickedEverywhere(u)
        /\ LiveEntries(u) = 0

----------------------------------------------------------------------------
(* C10 *)

\* Slot s returns from grant_access with new_expires in this step.
GrantReturned(s) ==
    /\ tasks[s].pc = "notify"
    /\ tasks'[s].pc = "done"
    /\ tasks'[s].outcome \in {"granted", "approved"}

HasEntry(jq, user_id, when) ==
    \E j \in BagToSet(jq) :
        /\ j.name = kick_name(user_id)
        /\ j.user_id = user_id
        /\ j.when = when

\* C10: with a job queue, the step in which grant_access persists leaves the
\* user's stored expiry equal to the new_expires it will return, and a queue
\* entry for the user at exactly that time; when grant_access returns that
\* value, the entry is still in the queue.
C10_GrantStoredAndScheduled ==
    [][ \A s \in Slots :
          /\ (GrantPersisted(s) /\ jq_available) =>
               /\ get_expires_at(members', tasks'[s].user_id) = tasks'[s].new_expires
               /\ HasEntry(jobs', tasks'[s].user_id, tasks'[s].new_expires)
          /\ (GrantReturned(s) /\ jq_available) =>
               HasEntry(jobs', tasks[s].user_id, tasks[s].new_expires)
      ]_vars

\* A user without a running grant has paid and has the message: the stored
\* expiry and the queue entry are both one period after the payment.
C10_Witness ==
    \E s \in Slots :
        /\ jq_available
        /\ tasks[s].kind = "payment"
        /\ tasks[s].pc = "done"
        /\ tasks[s].outcome = "granted"
        /\ tasks[s].new_expires = Start + SubPeriod
        /\ get_expires_at(members, tasks[s].user_id) = Start + SubPeriod
        /\ HasEntry(jobs, tasks[s].user_id, Start + SubPeriod)

----------------------------------------------------------------------------
(* C11 *)

\* The token (user_id, req_id) of slot s does not name the PENDING request of
\* its user: the user has none, or has one with another id.
StaleToken(s) ==
    \A p \in PendingOf(manual_requests, tasks[s].user_id) : p.id # tasks[s].req_id

\* C11: a stale request is refused with no mutation.  A press by a reviewer
\* whose target user has no PENDING request, or a PENDING request with an id
\* other than the one of the token, ends the handler at once: no request, no
\* grant and no queue entry changes, grant_access is not invoked and no
\* channel call is made.
C11_StaleRefusedNoMutation ==
    [][ \A s \in Slots :
          (DecideStep(s) /\ tasks[s].caller \in ADMIN_IDS /\ StaleToken(s)) =>
            /\ tasks'[s].pc = "done"
            /\ tasks'[s].outcome =
                 IF PendingOf(manual_requests, tasks[s].user_id) = {}
                 THEN "no_pending" ELSE "not_valid"
            /\ tasks'[s].calls = <<>>
            /\ \A q \in Slots \ {s} : tasks'[q] = tasks[q]
            /\ UNCHANGED <<members, manual_requests, next_id, jobs, grant_calls>>
      ]_vars

\* A token for a decided request of a user who holds another, PENDING,
\* request has been refused; the PENDING one is untouched.
C11_Witness ==
    \E s \in Slots :
        /\ tasks[s].kind = "callback"
        /\ tasks[s].pc = "done"
        /\ tasks[s].outcome = "not_valid"
        /\ tasks[s].calls = <<>>
        /\ \E r \in manual_requests :
              r.id = tasks[s].req_id /\ r.status # "PENDING"
        /\ PendingOf(manual_requests, tasks[s].user_id) # {}

----------------------------------------------------------------------------
(* C12 *)

\* Slot s handles /forcekick in this step.
ForceKickStep(s) ==
    /\ Accepts(s)
    /\ ops' = ops + 1
    /\ tasks'[s].kind = "forcekick"

\* C12: unauthorized callers are refused before any mutation.  A button
\* press or a /forcekick from a user outside ADMIN_IDS, whatever its
\* arguments, leaves all requests, all grants and the job queue as they are,
\* invokes neither grant_access nor a channel call, and ends the handler.
C12_UnauthorizedNoMutation ==
    [][ \A s \in Slots :
          (\/ DecideStep(s) /\ tasks[s].caller \notin ADMIN_IDS
           \/ ForceKickStep(s) /\ tasks'[s].caller \notin ADMIN_IDS) =>
            /\ tasks'[s].pc = "done"
            /\ tasks'[s].outcome = "unauthorized"
            /\ tasks'[s].calls = <<>>
            /\ \A q \in Slots \ {s} : tasks'[q] = tasks[q]
            /\ UNCHANGED <<members, manual_requests, next_id, jobs, grant_calls>>
      ]_vars

\* Both a /forcekick and a button press of a user outside ADMIN_IDS have been
\* refused, while a PENDING request was there to decide.
C12_Witness ==
    /\ \E s \in Slots :
         /\ tasks[s].kind = "forcekick"
         /\ tasks[s].outcome = "unauthorized"
         /\ tasks[s].caller \notin ADMIN_IDS
    /\ \E s \in Slots :
         /\ tasks[s].kind = "callback"
         /\ tasks[s].outcome = "unauthorized"
         /\ tasks[s].caller \notin ADMIN_IDS
    /\ \E r \in manual_requests : r.status = "PENDING"

----------------------------------------------------------------------------
(* C13 *)

\* Slot s handles a /forcekick of an admin on user u in this step.
ForceKickOn(s, u) ==
    /\ ForceKickStep(s)
    /\ tasks'[s].caller \in ADMIN_IDS
    /\ tasks'[s].user_id = u

\* C13: the expiry only moves forward under normal extension.  In a step
\* that is not a /forcekick on user u, a row of u in members stays, and its
\* expires_at does not decrease (no expiry counting as the least); a step in
\* which grant_access persists for u leaves a row whose expires_at is
\* strictly greater than before.
C13_ExpiryMovesForward ==
    [][ \A u \in Users :
          (~ \E s \in Slots : ForceKickOn(s, u)) =>
            /\ members[u].present => members'[u].present
            /\ members'[u].expires_at >= members[u].expires_at
            /\ members[u].expires_at # None => members'[u].expires_at # None
            /\ \A s \in Slots :
                 (GrantPersisted(s) /\ tasks'[s].user_id = u) =>
                    /\ members'[u].present
                    /\ members'[u].expires_at # None
                    /\ members'[u].expires_at > members[u].expires_at
                    /\ members'[u].expires_at > now
      ]_vars

\* A user whose grant was running at the start has been extended twice.
C13_Witness ==
    \E u \in Users :
        /\ members[u].present
        /\ members[u].expires_at = Start + 2 + 2 * SubPeriod
        /\ \A s \in Slots : tasks[s].kind = "payment" /\ tasks[s].user_id = u

----------------------------------------------------------------------------
(* C14 *)

\* Slot s is inside grant_access, past the write and before the return.
GrantInFlight(s) == tasks[s].pc \in {"links", "notify"}

\* C14: no lost update under overlapping extensions.  When grant_access
\* persists for a user while another grant_access for the same user is still
\* in flight, and the store still holds what that one wrote, the second
\* computes from the expiry the first has written: it persists and returns
\* the first one's new_expires plus one period, so both periods count.
C14_NoLostUpdate ==
    [][ \A s1 \in Slots, s2 \in Slots :
          (/\ s1 # s2
           /\ GrantInFlight(s1)
           /\ GrantPersisted(s2)
           /\ tasks'[s2].user_id = tasks[s1].user_id
           /\ get_expires_at(members, tasks[s1].user_id) = tasks[s1].new_expires)
          => /\ tasks'[s2].new_expires = tasks[s1].new_expires + SubPeriod
             /\ members'[tasks[s1].user_id].expires_at
                  = tasks[s1].new_expires + SubPeriod
             /\ tasks'[s1].new_expires = tasks[s1].new_expires
      ]_vars

\* An approval and a payment for the same user overlap: the approval is
\* still in grant_access when the payment persists, and the user holds two
\* periods.
C14_Witness ==
    \E s1 \in Slots, s2 \in Slots :
        /\ tasks[s1].kind = "callback"
        /\ GrantInFlight(s1)
        /\ tasks[s2].kind = "payment"
        /\ tasks[s2].user_id = tasks[s1].user_id
        /\ tasks[s1].new_expires = Start + SubPeriod
        /\ tasks[s2].new_expires = Start + 2 * SubPeriod
        /\ members[tasks[s1].user_id].expires_at = Start + 2 * SubPeriod

----------------------------------------------------------------------------
(* C15 *)

BootStep == phase = "boot" /\ phase' = "running"

\* C15, as claimed: every entry the boot installs fires at
\* max(expires_at, now + grace), so none fires before now + grace.
C15_BootFireAtMax ==
    [][ BootStep =>
          \A j \in BagToSet(jobs') :
             /\ j.when = Max(get_expires_at(members, j.user_id), now + BootGraceSeconds)
             /\ j.when >= now + BootGraceSeconds
      ]_vars

\* C15, amended: every entry the boot installs fires at now + grace when the
\* grant has lapsed (expires_at <= now), and at expires_at itself when it has
\* not, also when that is within the grace; no entry fires before now or
\* before the expiry of its grant.
C15_BootFireAt ==
    [][ (BootStep /\ jq_available) =>
          /\ \A u \in WithExpiry(members) :
               HasEntry(jobs', u, IF get_expires_at(members, u) <= now
                                  THEN now + BootGraceSeconds
                                  ELSE get_expires_at(members, u))
          /\ \A j \in BagToSet(jobs') :
               /\ j.when > now
               /\ j.when >= get_expires_at(members, j.user_id)
               /\ j.when \in {get_expires_at(members, j.user_id), now + BootGraceSeconds}
      ]_vars

\* The boot found a grant that lapses within the grace and a lapsed one: the
\* first fires at its expiry, the second after the grace.
C15_Witness ==
    /\ phase = "running"
    /\ now = Start
    /\ ops = 0
    /\ \E u \in Users :
         /\ get_expires_at(members, u) = Start + 2
         /\ HasEntry(jobs, u, Start + 2)
    /\ \E u \in Users :
         /\ get_expires_at(members, u) = Start - 1
         /\ HasEntry(jobs, u, Start + BootGraceSeconds)

----------------------------------------------------------------------------
(* C16 *)

IsPrefix(p, q) == Len(p) <= Len(q) /\ \A i \in 1..Len(p) : p[i] = q[i]

JobInLoop(s) == tasks[s].kind = "job" /\ tasks[s].pc = "ban"

\* C16: a job that fires when the expiry of its user is absent or not
\* strictly greater than now enters the ban loop; each turn of the loop calls
\* ban_chat_member for the next channel of CHANNEL_IDS, whether or not the
\* call before it or this one fails, and only the turn for the last channel
\* ends the job; so a job in the loop ends having called every channel once,
\* in order.
C16_RevokeEveryResource ==
    /\ [][ \A s \in Slots :
             /\ \A j \in BagToSet(jobs) :
                  (JobFired(s, j) /\ ~(get_expires_at(members, j.user_id) > now))
                  => /\ tasks'[s].pc = "ban"
                     /\ tasks'[s].calls = <<>>
             /\ (JobInLoop(s) /\ tasks'[s] # tasks[s]) =>
                  /\ tasks'[s].kind = "job"
                  /\ tasks'[s].user_id = tasks[s].user_id
                  /\ tasks'[s].calls
                       = Append(tasks[s].calls, CHANNEL_IDS[Len(tasks[s].calls) + 1])
                  /\ IF Len(tasks'[s].calls) < Len(CHANNEL_IDS)
                     THEN tasks'[s].pc = "ban"
                     ELSE tasks'[s].pc = "done" /\ tasks'[s].outcome = "kicked"
             /\ tasks[s].kind = "job" => IsPrefix(tasks[s].calls, CHANNEL_IDS)
         ]_vars
    /\ \A s \in Slots :
         JobInLoop(s) ~> (/\ tasks[s].kind = "job"
                          /\ tasks[s].pc = "done"
                          /\ tasks[s].outcome = "kicked"
                          /\ tasks[s].calls = CHANNEL_IDS)

\* The call for the first channel has failed and the job is in the loop
\* still, with the second channel to go.
C16_Witness ==
    \E s \in Slots :
        /\ JobInLoop(s)
        /\ tasks[s].calls = <<CHANNEL_IDS[1]>>
        /\ tasks[s].failed = {CHANNEL_IDS[1]}
        /\ ~(get_expires_at(members, tasks[s].user_id) > now)

----------------------------------------------------------------------------
(* Grants and kicks alone: payments, /forcekick, the clock and the job queue *)

NextAccess ==
    \/ Bootstrap
    \/ Tick
    \/ \E s \in Slots, j \in BagToSet(jobs) : JobFire(s, j)
    \/ \E s \in Slots : JobBan(s)
    \/ \E s \in Slots, u \in Users, c \in Charges : PaymentStart(s, u, c)
    \/ \E s \in Slots : GrantLinks(s)
    \/ \E s \in Slots : GrantNotify(s)
    \/ \E s \in Slots, caller \in Users, target \in Users : ForceKick(s, caller, target)

\* No handler of NextAccess reads or writes manual_requests.
InitAccess == Init /\ manual_requests = {}

\* post_init runs; the clock advances; the job queue runs a job that is due;
\* every awaited call of a job or of grant_access returns or raises.  Updates
\* arrive or not.
FairAccess ==
    /\ InitAccess
    /\ [][NextAccess]_vars
    /\ WF_vars(Bootstrap)
    /\ WF_vars(Tick)
    /\ WF_vars(\E s \in Slots, j \in BagToSet(jobs) : JobFire(s, j))
    /\ WF_vars(\E s \in Slots : JobBan(s))
    /\ WF_vars(\E s \in Slots : GrantLinks(s))
    /\ WF_vars(\E s \in Slots : GrantNotify(s))

----------------------------------------------------------------------------
(* C17 *)

ForceEntries(u) ==
    {j \in BagToSet(jobs) : j.user_id = u /\ j.name.prefix = "forcekick"}

\* C17, as claimed: a /forcekick of an admin sets the expiry of the target to
\* now, installs an entry for the target at now plus the fixed delay and
\* calls no channel itself.
C17_ForceRevokeInstallsEntry ==
    [][ \A s \in Slots, u \in Users :
          ForceKickOn(s, u) =>
            /\ get_expires_at(members', u) = now
            /\ \E j \in BagToSet(jobs') :
                 j.user_id = u /\ j.when = now + ForceKickDelaySeconds
            /\ tasks'[s].calls = <<>>
      ]_vars

\* C17, amended: a /forcekick of an admin sets the expiry of the target to
\* now and calls no channel itself; with a job queue it adds one entry for
\* the target at now plus the fixed delay, without one it adds none and says
\* so.  Once such an entry is in the queue, it fires, and unless the target
\* has been granted again by then (the expiry is in the future), the kick
\* job ends its loop over all channels after the /forcekick.
C17_ForceRevoke ==
    /\ [][ \A s \in Slots, u \in Users :
             ForceKickOn(s, u) =>
               /\ get_expires_at(members', u) = now
               /\ \A v \in Users \ {u} : members'[v] = members[v]
               /\ tasks'[s].pc = "done"
               /\ tasks'[s].calls = <<>>
               /\ revoked' = revoked
               /\ IF jq_available
                  THEN /\ tasks'[s].outcome = "scheduled"
                       /\ jobs' = jobs (+) SetToBag({[name |-> forcekick_name(u, now),
                                                     user_id |-> u,
                                                     when |-> now + ForceKickDelaySeconds]})
                  ELSE /\ tasks'[s].outcome = "no_jobqueue"
                       /\ jobs' = jobs
         ]_vars
    /\ \A u \in Users :
         (ForceEntries(u) # {})
         ~> \/ get_expires_at(members, u) > now
            \/ /\ ForceEntries(u) = {}
               /\ \A s \in Slots : ~(JobInLoop(s) /\ tasks[s].user_id = u)
               /\ revoked[u] >= get_expires_at(members, u)

\* An admin forced out a user whose grant was running; the job has fired and
\* has gone through every channel.
C17_Witness ==
    \E s \in Slots : \E u \in Users :
        /\ tasks[s].kind = "forcekick"
        /\ tasks[s].outcome = "scheduled"
        /\ tasks[s].user_id = u
        /\ get_expires_at(members, u) = Start
        /\ ForceEntries(u) = {}
        /\ revoked[u] = Start + ForceKickDelaySeconds
        /\ KickedEverywhere(u)

----------------------------------------------------------------------------
(* C18 *)

\* The payment with charge id c of user u has been handled by slot q, which
\* has returned.
Delivered(q, u, c) ==
    /\ tasks[q].kind = "payment"
    /\ tasks[q].pc = "done"
    /\ tasks[q].user_id = u
    /\ tasks[q].charge = c

\* C18: a payment delivered twice does not extend twice.  When the update of
\* a payment that has been handled already is handled again, the expiry of
\* its user stays what it was.
C18_DuplicateDeliveryNoExtend ==
    [][ \A s \in Slots, q \in Slots :
          (/\ Accepts(s)
           /\ ops' = ops + 1
           /\ tasks'[s].kind = "payment"
           /\ Delivered(q, tasks'[s].user_id, tasks'[s].charge))
          => get_expires_at(members', tasks'[s].user_id)
               = get_expires_at(members, tasks'[s].user_id)
      ]_vars

----------------------------------------------------------------------------
(* C19 *)

\* The ban loop of slot s goes on to its next channel in this step: the call
\* for one channel has returned or raised and the next call is issued.
NextBanIssued(s) ==
    /\ JobInLoop(s)
    /\ tasks'[s].kind = "job"
    /\ tasks'[s].pc = "ban"
    /\ tasks'[s].idx = tasks[s].idx + 1

\* C19: no revocation while access is paid for.  No ban_chat_member call is
\* issued for a user at a moment when the stored expiry of that user is
\* strictly in the future: not the first one, issued as the job fires, and
\* not a later one of the loop.
C19_NoRevokeWhilePaid ==
    [][ \A s \in Slots :
          /\ \A j \in BagToSet(jobs) :
               (JobFired(s, j) /\ tasks'[s].pc = "ban")
               => ~(get_expires_at(members, j.user_id) > now)
          /\ NextBanIssued(s)
               => ~(get_expires_at(members, tasks[s].user_id) > now)
      ]_vars

----------------------------------------------------------------------------
(* C20 *)

\* A kick of user u is still to come: an entry for u that is not due before
\* the expiry of u is in the queue, or a job of u is in its ban loop.
PendingRevocation(u) ==
    \/ \E j \in BagToSet(jobs) : j.user_id = u /\ j.when >= get_expires_at(members, u)
    \/ \E s \in Slots : JobInLoop(s) /\ tasks[s].user_id = u

\* A kick job of user u has ended its ban loop at or after the expiry of u.
CompletedRevocation(u) == revoked[u] >= get_expires_at(members, u)

Lapsed(u) == get_expires_at(members, u) # None /\ get_expires_at(members, u) <= now

\* C20: eventual revocation.  With a job queue, once the process has booted
\* every user with an expiry has a kick that is still to come or one that
\* has ended its loop since the expiry, whatever payments and /forcekick came
\* before; and a user whose expiry has passed gets every channel called by a
\* kick job, unless granted again.
C20_EventualRevocation ==
    /\ [] ((phase = "running" /\ jq_available) =>
             \A u \in WithExpiry(members) :
                PendingRevocation(u) \/ CompletedRevocation(u))
    /\ \A u \in Users :
         (phase = "running" /\ jq_available /\ Lapsed(u))
         ~> (CompletedRevocation(u) \/ get_expires_at(members, u) > now)

\* A user paid, the period went by, and the kick job scheduled by that grant
\* has gone through every channel.
C20_Witness ==
    \E u \in Users :
        /\ jq_available
        /\ get_expires_at(members, u) = Start + SubPeriod
        /\ now = Start + SubPeriod
        /\ revoked[u] = Start + SubPeriod
        /\ KickedEverywhere(u)
        /\ LiveEntries(u) = 0

----------------------------------------------------------------------------
(* C21 *)

\* C21: frame of /forcekick.  A /forcekick of an admin on user u leaves the
\* stored username of u, the rows of all other users in members and all of
\* manual_requests as they were; of the row of u it changes expires_at only.
C21_ForceKickFrame ==
    [][ \A s \in Slots, u \in Users :
          ForceKickOn(s, u) =>
            /\ members'[u].username = members[u].username
            /\ \A v \in Users \ {u} : members'[v] = members[v]
            /\ manual_requests' = manual_requests
            /\ next_id' = next_id
      ]_vars

====
